---- MODULE Spec2Model ----
(***************************************************************************)
(* Kernel core of os.h (src/src/os.c): the task table, the lifecycle state *)
(* machine, the round-robin scheduler reschedule(), the tick service       *)
(* SysTick_Handler, the syscall gateway os_svcall_handler, os_delay, the   *)
(* initial stack frame built by os_task_init and the handler-return trap   *)
(* task_finished.                                                          *)
(* Pointers into the task table (os_curr_task, os_next_task, p_task) are   *)
(* modelled as slot indices; NULL is -1.                                   *)
(***************************************************************************)
EXTENDS Integers, Sequences, FiniteSets, TLC

(* ---- bounds of the model ---- *)
\* OS_CONFIG_MAX_TASKS comes from os_config.h; the table has one more slot.
OS_CONFIG_MAX_TASKS == 3
\* largest tick count passed to os_delay (0 is included)
MaxTicks == 2
\* largest stack size, in words, passed to os_task_init
MaxStack == 17

(* ---- program constants ---- *)
OS_TASKS_COUNT == OS_CONFIG_MAX_TASKS + 1

OS_TASK_STATUS_NONE == 0
OS_TASK_STATUS_IDLE == 1
OS_TASK_STATUS_ACTIVE == 2
OS_TASK_STATUS_WAITING == 3

OS_STATE_DEFAULT == 1
OS_STATE_INITIALIZED == 2
OS_STATE_TASKS_INITIALIZED == 3
OS_STATE_STARTED == 4

\* uint32_t values: TLC's integers are 32 bits wide and signed, so a value v
\* of 2^31 or more is held as v - 2^32 (0xFFFFFFFF is -1, 0x80000000 is
\* -2^31); equality with 0 is unaffected, and "v > 0" unsigned is v # 0.
U32Dec(v) == IF v = -2147483647 - 1 THEN 2147483647 ELSE v - 1
U32Wrapped(v) == v < 0

NULL == -1

Slots == 0 .. (OS_TASKS_COUNT - 1)

\* a zeroed os_task_t, as memset leaves it
ZeroTask == [sp |-> 0, handler |-> "NULL", p_params |-> 0, wait_ticks |-> 0,
             status |-> OS_TASK_STATUS_NONE]

VARIABLES
    m_state,        \* lifecycle state
    tasks,          \* m_task_table.tasks
    size,           \* m_task_table.size
    current_task,   \* m_task_table.current_task
    os_curr_task,   \* exported reference, a slot index or NULL
    os_next_task,   \* exported reference, a slot index or NULL
    pendsv,         \* SCB->ICSR PENDSVSET
    svc_tail,       \* the SVC handler has just set PendSV pending: a tick that
                    \* became pending meanwhile is served first (same priority
                    \* as SVC, above PendSV)
    nvic_prio,      \* priorities of PendSV, SVC, SysTick
    running,        \* execution context live on the processor (NULL: none)
    ctx,            \* ctx[s]: execution context saved behind tasks[s].sp; NULL
                    \* once it has been restored (the frame is popped and its
                    \* stack words are reused) or if the slot is unoccupied
    pc,             \* pc[c]: position of context c in the task code
    p_task,         \* p_task[c]: os_delay's local pointer in context c
    lr,             \* lr[c]: where the handler of context c returns to
    main_pc,        \* position of main(): "app" outside os_start, "timer"
                    \* after SysTick_Config, "state" after m_state = STARTED,
                    \* "task" after the first handler was called, "fault"
    app,            \* what the application passes to os_task_init: the stack
                    \* size, the words the stacks hold, the parameter, and the
                    \* build configuration (OS_CONFIG_DEBUG)
    stack,          \* the stack region given to the last successful os_task_init
    err_reports,    \* history: OS_ERROR_TASK_FINISHED reports per context
    last,           \* history: the API call entered or left by the last step,
                    \* and its result
    inv,            \* history: the scheduler invocation of the last step, if it made one
    hist,           \* history: slots selected since the ready set last changed
    dly,            \* history: per slot, the tick count of its delay less the
                    \* ticks since, and whether that count was 0
    starve          \* history: per slot, the consecutive scheduler invocations
                    \* that have ended with the slot Idle

kvars == <<m_state, tasks, size, current_task, os_curr_task, os_next_task>>
hw == <<pendsv, svc_tail, nvic_prio>>
thr == <<running, ctx, pc, p_task, lr, main_pc>>
mem == <<app, stack>>
ghost == <<err_reports, last, inv, hist, dly, starve>>
vars == <<m_state, tasks, size, current_task, os_curr_task, os_next_task,
          pendsv, svc_tail, nvic_prio, running, ctx, pc, p_task, lr, main_pc, app,
          stack, err_reports, last, inv, hist, dly, starve>>

NoInv == [valid |-> FALSE, by |-> "none", cur |-> 0, st |-> [s \in Slots |-> 0],
          sz |-> 0, pend |-> FALSE, next |-> 0, raised |-> FALSE, path |-> << >>]
NoDly == [on |-> FALSE, rem |-> 0, zero |-> FALSE]
NoCall == [op |-> "none", ret |-> "OK"]
NoStack == [base |-> 0, size |-> 0, old |-> << >>, words |-> << >>]

(* ---- what the application passes to os_task_init ---- *)

\* line 135: the initial frame takes the last 16 words of the region
FrameWords == 16

\* the stack sizes, the word values found in a stack before the call, and the
\* task parameters an application is taken to use
StackSizes == FrameWords .. MaxStack
Fills == {0, 57005}
Params == {0, 4660}
Apps == [stack_size : StackSizes, fill : Fills, p_params : Params, debug : BOOLEAN]

\* the production build of one application: OS_CONFIG_DEBUG is not defined
ProductionApp == [stack_size |-> MaxStack, fill |-> 57005, p_params |-> 4660,
                  debug |-> FALSE]

\* everything but the application's data, as the C runtime leaves it
Boot ==
    /\ m_state = OS_STATE_DEFAULT
    /\ tasks = [s \in Slots |-> ZeroTask]
    /\ size = 0
    /\ current_task = 0
    /\ os_curr_task = NULL
    /\ os_next_task = NULL
    /\ pendsv = FALSE
    /\ svc_tail = FALSE
    /\ nvic_prio = [PendSV |-> 0, SVC |-> 0, SysTick |-> 0]
    /\ running = NULL
    /\ ctx = [s \in Slots |-> NULL]
    /\ pc = [s \in Slots |-> "none"]
    /\ p_task = [s \in Slots |-> NULL]
    /\ lr = [s \in Slots |-> "none"]
    /\ main_pc = "app"
    /\ stack = NoStack
    /\ err_reports = [s \in Slots |-> 0]
    /\ last = NoCall
    /\ inv = NoInv
    /\ hist = << >>
    /\ dly = [s \in Slots |-> NoDly]
    /\ starve = [s \in Slots |-> 0]

Init == Boot /\ app = ProductionApp

(* ---- reschedule(), src/src/os.c:50-98 ---- *)

SetStatus(tt, s, v) == [tt EXCEPT ![s].status = v]

\* lines 62-63: the current task is a user task that was preempted while Active
PreemptedActive(tt, cur) ==
    cur # 0 /\ tt[cur].status = OS_TASK_STATUS_ACTIVE

\* faulty variant: the preempted current task is not counted as ready
NoReadyTask_IgnorePreempted(tt, cur, sz) ==
    ~ \E i \in 1 .. (sz - 1) : tt[i].status = OS_TASK_STATUS_IDLE

\* lines 57-74: the value of no_ready_task after the check
NoReadyTask(tt, cur, sz) ==
    IF PreemptedActive(tt, cur)
    THEN FALSE
    ELSE ~ \E i \in 1 .. (sz - 1) : tt[i].status = OS_TASK_STATUS_IDLE

\* faulty variant: the scan wraps to slot 0 instead of slot 1
StepCurrent_WrapToZero(c, sz) == IF c + 1 >= sz THEN 0 ELSE c + 1

\* faulty variant: the wrap is taken one increment late
StepCurrent_LateWrap(c, sz) == IF c + 1 > sz THEN 1 ELSE c + 1

\* lines 83-85: one increment of current_task with its wrap to slot 1
StepCurrent(c, sz) == IF c + 1 >= sz THEN 1 ELSE c + 1

\* faulty variant: the scan always takes the lowest Idle slot
ScanNext_LowestFirst(tt, c, sz) ==
    CHOOSE s \in 1 .. (sz - 1) :
        /\ tt[s].status = OS_TASK_STATUS_IDLE
        /\ \A t \in 1 .. (s - 1) : tt[t].status # OS_TASK_STATUS_IDLE

\* lines 82-88: the do-while scan; yields the slot it stops on
RECURSIVE ScanNext(_, _, _)
ScanNext(tt, c, sz) ==
    LET c1 == StepCurrent(c, sz)
    IN  IF tt[c1].status = OS_TASK_STATUS_IDLE THEN c1 ELSE ScanNext(tt, c1, sz)

\* lines 82-88: the values current_task takes during the do-while scan
RECURSIVE ScanPath(_, _, _)
ScanPath(tt, c, sz) ==
    LET c1 == StepCurrent(c, sz)
    IN  IF tt[c1].status = OS_TASK_STATUS_IDLE
        THEN << c1 >>
        ELSE << c1 >> \o ScanPath(tt, c1, sz)

\* faulty variant: PendSV is set pending on every invocation
PendSVRequested_Always(curr, next) == TRUE

\* lines 94-95: whether PendSV is set pending
PendSVRequested(curr, next) == curr # next

\* the whole of reschedule(): the new table, current_task and references
Reschedule(tt, cur, sz) ==
    LET curr == cur
        tt1  == IF PreemptedActive(tt, cur)
                THEN SetStatus(tt, cur, OS_TASK_STATUS_IDLE)
                ELSE tt
        next == IF NoReadyTask(tt, cur, sz) THEN 0 ELSE ScanNext(tt1, cur, sz)
    IN  [tasks        |-> SetStatus(tt1, next, OS_TASK_STATUS_ACTIVE),
         current_task |-> next,
         curr         |-> curr,
         next         |-> next,
         raised       |-> PendSVRequested(curr, next),
         path         |-> IF NoReadyTask(tt, cur, sz)
                          THEN << >>
                          ELSE ScanPath(tt1, cur, sz)]

\* os_reschedule() is declared in os.h; it invokes the scheduler
os_reschedule(tt, cur, sz) == Reschedule(tt, cur, sz)

(* ---- history bookkeeping ---- *)

\* the largest number of user tasks the table takes
HistLen == OS_TASKS_COUNT - 2

KeepLast(q) == IF Len(q) > HistLen THEN SubSeq(q, Len(q) - HistLen + 1, Len(q)) ELSE q

InvOf(tt, cur, sz, r, by) ==
    [valid |-> TRUE, by |-> by, cur |-> cur, st |-> [s \in Slots |-> tt[s].status],
     sz |-> sz, pend |-> pendsv, next |-> r.next, raised |-> r.raised,
     path |-> r.path]

\* starve after an invocation that leaves the table as tt
Starved(tt, sz) ==
    [s \in Slots |->
        IF s \in 1 .. (sz - 1) /\ tt[s].status = OS_TASK_STATUS_IDLE
        THEN IF starve[s] < OS_TASKS_COUNT THEN starve[s] + 1 ELSE starve[s]
        ELSE 0]

(* ---- os_task_init(), src/src/os.c:120-169 ---- *)

\* line 143: the default xPSR, 0x01000000 (Thumb state)
XPSR_DEFAULT == 16777216

\* (uint32_t) of a function's address
AddrOf(f) ==
    CASE f = "NULL" -> 0
      [] f = "idle_task_handler" -> 134218001
      [] f = "task_handler" -> 134218257
      [] f = "task_finished" -> 134218513

\* the stacks are arrays of 32-bit words: the address of word i of p_stack
WordAddr(p_stack, i) == p_stack + 4 * i

\* the word array the application hands over for slot s, and what it holds
StackBase(s) == 536870912 + 4096 * s
Region(len, fill) == [i \in 0 .. (len - 1) |-> fill]

\* line 135: the stack pointer stored in the task structure
StackPointer(p_stack, stack_size) == WordAddr(p_stack, stack_size - FrameWords)

\* faulty variant: the parameter is stored in the word of R1
InitialFrame_ParamsInR1(old, sz, S, handler, params, debug) ==
    [old EXCEPT ![S - 1] = XPSR_DEFAULT,
                ![S - 2] = AddrOf(handler),
                ![S - 3] = AddrOf("task_finished"),
                ![S - 7] = params]

\* lines 143-163: the words of the region after the initial frame is written;
\* sz is m_task_table.size, debug is OS_CONFIG_DEBUG
InitialFrame(old, sz, S, handler, params, debug) ==
    LET w == [old EXCEPT ![S - 1] = XPSR_DEFAULT,
                         ![S - 2] = AddrOf(handler),
                         ![S - 3] = AddrOf("task_finished"),
                         ![S - 8] = params]
        base == (sz + 1) * 1000
    IN  IF debug
        THEN [w EXCEPT ![S - 4] = base + 12, ![S - 5] = base + 3,
                       ![S - 6] = base + 2, ![S - 7] = base + 1,
                       ![S - 9] = base + 7, ![S - 10] = base + 6,
                       ![S - 11] = base + 5, ![S - 12] = base + 4,
                       ![S - 13] = base + 11, ![S - 14] = base + 10,
                       ![S - 15] = base + 9, ![S - 16] = base + 8]
        ELSE w

\* faulty variant: the state check of lines 123-125 is missing
TaskInit_NoStateCheck(st, tt, sz, handler, p_params, p_stack, stack_size) ==
    IF sz >= OS_TASKS_COUNT - 1
    THEN [ret |-> "NO_MEM", m_state |-> st, tasks |-> tt, size |-> sz]
    ELSE [ret |-> "OK",
          m_state |-> OS_STATE_TASKS_INITIALIZED,
          tasks |-> [tt EXCEPT ![sz].handler = handler,
                               ![sz].p_params = p_params,
                               ![sz].sp = StackPointer(p_stack, stack_size),
                               ![sz].status = OS_TASK_STATUS_IDLE],
          size |-> sz + 1]

\* the effect of os_task_init on the kernel state and the table
TaskInit(st, tt, sz, handler, p_params, p_stack, stack_size) ==
    IF st # OS_STATE_INITIALIZED /\ st # OS_STATE_TASKS_INITIALIZED
    THEN [ret |-> "WRONG_STATE", m_state |-> st, tasks |-> tt, size |-> sz]
    ELSE IF sz >= OS_TASKS_COUNT - 1
    THEN [ret |-> "NO_MEM", m_state |-> st, tasks |-> tt, size |-> sz]
    ELSE [ret |-> "OK",
          m_state |-> OS_STATE_TASKS_INITIALIZED,
          tasks |-> [tt EXCEPT ![sz].handler = handler,
                               ![sz].p_params = p_params,
                               ![sz].sp = StackPointer(p_stack, stack_size),
                               ![sz].status = OS_TASK_STATUS_IDLE],
          size |-> sz + 1]

\* the region a successful os_task_init for slot sz leaves behind
StackOf(sz, S, fill, handler, params, debug) ==
    [base |-> StackBase(sz), size |-> S, old |-> Region(S, fill),
     words |-> InitialFrame(Region(S, fill), sz, S, handler, params, debug)]

\* os_idle_task_init() (os_idle_task.h): registers the idle handler through
\* os_task_init and returns its result
os_idle_task_init(st, tt, sz) ==
    TaskInit(st, tt, sz, "idle_task_handler", 0, StackBase(sz), FrameWords)

(* ---- who may call the API ---- *)

UserCtx == 1 .. (OS_TASKS_COUNT - 1)

\* context c executes in thread mode: it is live and no exception is pending
ThreadRuns(c) == running = c /\ ~pendsv

\* the caller is main() outside os_start, or a user task's body
Caller(c) ==
    IF c = NULL
    THEN main_pc = "app"
    ELSE c \in UserCtx /\ ThreadRuns(c) /\ pc[c] = "body"

(* ---- os_init(), src/src/os.c:100-118 ---- *)

os_init ==
    \E c \in UserCtx \cup {NULL} :
    /\ Caller(c)
    /\ IF m_state # OS_STATE_DEFAULT
       THEN /\ last' = [op |-> "os_init", ret |-> "WRONG_STATE"]
            /\ UNCHANGED <<kvars, ctx, pc, lr, stack>>
       ELSE LET zero == [s \in Slots |-> ZeroTask]
                r == os_idle_task_init(OS_STATE_INITIALIZED, zero, 0)
            IN  /\ tasks' = r.tasks
                /\ size' = r.size
                /\ IF r.ret # "OK"
                   THEN /\ m_state' = OS_STATE_DEFAULT
                        /\ current_task' = 0
                        /\ UNCHANGED <<ctx, pc, lr, stack>>
                   ELSE /\ m_state' = r.m_state
                        /\ current_task' = 1
                        /\ ctx' = [ctx EXCEPT ![0] = 0]
                        /\ pc' = [pc EXCEPT ![0] = "body"]
                        /\ lr' = [lr EXCEPT ![0] = "task_finished"]
                        /\ stack' = StackOf(0, FrameWords, 0, "idle_task_handler",
                                            0, app.debug)
                /\ last' = [op |-> "os_init", ret |-> r.ret]
                /\ UNCHANGED <<os_curr_task, os_next_task>>
    /\ inv' = NoInv
    /\ UNCHANGED <<hw, running, p_task, main_pc, app, err_reports,
                   hist, dly, starve>>

(* ---- os_task_init() called for a user task ---- *)

os_task_init ==
    \E c \in UserCtx \cup {NULL} :
    /\ Caller(c)
    /\ LET r == TaskInit(m_state, tasks, size, "task_handler", app.p_params,
                         StackBase(size), app.stack_size)
       IN  /\ m_state' = r.m_state
           /\ tasks' = r.tasks
           /\ size' = r.size
           /\ IF r.ret = "OK"
              THEN /\ ctx' = [ctx EXCEPT ![size] = size]
                   /\ pc' = [pc EXCEPT ![size] = "body"]
                   \* line 145: the LR word of the frame holds &task_finished
                   /\ lr' = [lr EXCEPT ![size] = "task_finished"]
                   /\ stack' = StackOf(size, app.stack_size, app.fill,
                                       "task_handler", app.p_params, app.debug)
              ELSE UNCHANGED <<ctx, pc, lr, stack>>
           /\ last' = [op |-> "os_task_init", ret |-> r.ret]
    /\ inv' = NoInv
    /\ UNCHANGED <<current_task, os_curr_task, os_next_task, hw, running, p_task,
                   main_pc, app, err_reports, hist, dly, starve>>

(* ---- os_start(), src/src/os.c:171-196 ---- *)

\* lines 173-183: the state check, the interrupt priorities and the start of
\* the timer; timer_ok: SysTick_Config accepted the period (returned 0)
os_start ==
    \E c \in UserCtx \cup {NULL}, timer_ok \in BOOLEAN :
    /\ Caller(c)
    /\ IF m_state # OS_STATE_TASKS_INITIALIZED
       THEN /\ last' = [op |-> "os_start", ret |-> "WRONG_STATE"]
            /\ UNCHANGED <<nvic_prio, main_pc>>
       ELSE /\ nvic_prio' = [PendSV |-> 255, SVC |-> 0, SysTick |-> 0]
            /\ IF ~timer_ok
               THEN /\ last' = [op |-> "os_start", ret |-> "INVALID_PARAM"]
                    /\ UNCHANGED main_pc
               ELSE /\ main_pc' = "timer"
                    /\ last' = [op |-> "os_start", ret |-> "PENDING"]
    /\ inv' = NoInv
    /\ UNCHANGED <<kvars, pendsv, svc_tail, running, ctx, pc, p_task, lr, mem,
                   err_reports, hist, dly, starve>>

\* lines 186-187: the current reference and the state
os_start_set_state ==
    /\ main_pc = "timer"
    /\ ~pendsv
    /\ os_curr_task' = current_task
    /\ m_state' = OS_STATE_STARTED
    /\ main_pc' = "state"
    /\ inv' = NoInv
    /\ last' = NoCall
    /\ UNCHANGED <<tasks, size, current_task, os_next_task, hw, running, ctx, pc,
                   p_task, lr, mem, err_reports, hist, dly, starve>>

\* lines 189-193: PSP is set to the top of the task's stack, so the initial
\* frame built there is overwritten; the processor goes to unprivileged
\* thread mode and the handler is called, with its return address in os_start;
\* a NULL handler leaves no task context running
os_start_call_handler ==
    /\ main_pc = "state"
    /\ ~pendsv
    /\ running' = IF tasks[os_curr_task].handler = "NULL"
                  THEN NULL
                  ELSE ctx[os_curr_task]
    /\ ctx' = [ctx EXCEPT ![os_curr_task] = NULL]
    /\ lr' = IF ctx[os_curr_task] = NULL
             THEN lr
             ELSE [lr EXCEPT ![ctx[os_curr_task]] = "os_start"]
    /\ main_pc' = "task"
    /\ last' = [op |-> "os_start", ret |-> "NORETURN"]
    /\ inv' = NoInv
    /\ UNCHANGED <<kvars, hw, pc, p_task, mem, err_reports, hist, dly,
                   starve>>

\* line 195: the first handler has returned into os_start, which returns
\* OS_ERROR_OK to main()
os_start_return ==
    \E c \in UserCtx :
    /\ ThreadRuns(c)
    /\ pc[c] = "body"
    /\ lr[c] = "os_start"
    /\ pc' = [pc EXCEPT ![c] = "main"]
    /\ last' = [op |-> "os_start", ret |-> "OK"]
    /\ inv' = NoInv
    /\ UNCHANGED <<kvars, hw, running, ctx, p_task, lr, main_pc, mem,
                   err_reports, hist, dly, starve>>

(* ---- task_finished(), src/src/os.c:40-48 ---- *)

\* a handler whose return address is the LR word of its initial frame has
\* returned: the error is reported and the context spins from then on
task_finished ==
    \E c \in UserCtx :
    /\ ThreadRuns(c)
    /\ pc[c] = "body"
    /\ lr[c] = "task_finished"
    /\ pc' = [pc EXCEPT ![c] = "trap"]
    /\ err_reports' = [err_reports EXCEPT ![c] = @ + 1]
    /\ inv' = NoInv
    /\ last' = NoCall
    /\ UNCHANGED <<kvars, hw, running, ctx, p_task, lr, main_pc, mem,
                   hist, dly, starve>>

(* ---- os_delay(), src/src/os.c:198-217 ---- *)

\* lines 200-208: the state check and the write of the status. The
\* __disable_irq() of line 206 is executed by a task, in the unprivileged
\* thread mode entered at line 190, where the processor ignores it: the tick
\* stays enabled between the two writes.
os_delay ==
    \E c \in UserCtx \cup {NULL} :
    /\ Caller(c)
    /\ IF m_state # OS_STATE_STARTED
       THEN /\ last' = [op |-> "os_delay", ret |-> "WRONG_STATE"]
            /\ UNCHANGED <<tasks, pc, p_task, hist, dly, starve>>
       ELSE /\ tasks' = [tasks EXCEPT ![current_task].status = OS_TASK_STATUS_WAITING]
            /\ p_task' = [p_task EXCEPT ![c] = current_task]
            /\ pc' = [pc EXCEPT ![c] = "mark"]
            /\ last' = [op |-> "os_delay", ret |-> "PENDING"]
            /\ hist' = << >>
            /\ dly' = [dly EXCEPT ![current_task] = NoDly]
            /\ starve' = [starve EXCEPT ![current_task] = 0]
    /\ inv' = NoInv
    /\ UNCHANGED <<m_state, size, current_task, os_curr_task, os_next_task, hw,
                   running, ctx, lr, main_pc, mem, err_reports>>

\* lines 209-210: the write of the tick count. The argument ticks is first
\* used here, so its value is drawn here.
os_delay_store ==
    \E c \in UserCtx, ticks \in 0 .. MaxTicks :
    /\ ThreadRuns(c)
    /\ pc[c] = "mark"
    /\ tasks' = [tasks EXCEPT ![p_task[c]].wait_ticks = ticks]
    /\ pc' = [pc EXCEPT ![c] = "svc"]
    /\ dly' = [dly EXCEPT ![p_task[c]] =
                  IF tasks[p_task[c]].status = OS_TASK_STATUS_WAITING
                  THEN [on |-> TRUE, rem |-> ticks, zero |-> ticks = 0]
                  ELSE NoDly]
    /\ last' = NoCall
    /\ inv' = NoInv
    /\ UNCHANGED <<m_state, size, current_task, os_curr_task, os_next_task, hw,
                   running, ctx, p_task, lr, main_pc, mem, err_reports, hist,
                   starve>>

(* ---- os_svcall_handler(), src/src/os.c:236-259 ---- *)

\* a scheduler invocation on the table tt: the part of the state it writes
Invoke(tt, r, by) ==
    /\ tasks' = r.tasks
    /\ current_task' = r.current_task
    /\ os_curr_task' = r.curr
    /\ os_next_task' = r.next
    /\ pendsv' = (pendsv \/ r.raised)
    /\ inv' = InvOf(tt, current_task, size, r, by)
    /\ starve' = Starved(r.tasks, size)

\* svc 0x01 is issued by os_delay (line 212); any other number by a task body
os_svcall_handler ==
    \E c \in UserCtx, svc_num \in {1, 2} :
    /\ m_state = OS_STATE_STARTED
    /\ ThreadRuns(c)
    /\ IF svc_num = 1
       THEN /\ pc[c] = "svc"
            /\ Invoke(tasks, Reschedule(tasks, current_task, size), "svc")
            /\ svc_tail' = pendsv'
            /\ hist' = KeepLast(Append(hist, current_task'))
            /\ pc' = [pc EXCEPT ![c] = "spin"]
       ELSE /\ pc[c] = "body"
            /\ inv' = NoInv
            /\ UNCHANGED <<tasks, current_task, os_curr_task, os_next_task, pendsv,
                           svc_tail, hist, pc, starve>>
    /\ last' = NoCall
    /\ UNCHANGED <<m_state, size, nvic_prio, running, ctx, p_task, lr,
                   main_pc, mem, err_reports, dly>>

\* line 214: the busy wait ends once the slot is no longer Waiting
os_delay_return ==
    \E c \in UserCtx :
    /\ m_state = OS_STATE_STARTED
    /\ ThreadRuns(c)
    /\ pc[c] = "spin"
    /\ tasks[p_task[c]].status # OS_TASK_STATUS_WAITING
    /\ pc' = [pc EXCEPT ![c] = "body"]
    /\ p_task' = [p_task EXCEPT ![c] = NULL]
    /\ last' = [op |-> "os_delay", ret |-> "OK"]
    /\ inv' = NoInv
    /\ UNCHANGED <<kvars, hw, running, ctx, lr, main_pc, mem,
                   err_reports, hist, dly, starve>>

(* ---- SysTick_Handler(), src/src/os.c:219-234 ---- *)

\* lines 224-231: the waiting counters after one tick (uint32_t arithmetic)
Age(tt, sz) ==
    [s \in Slots |->
        IF s \in 1 .. (sz - 1) /\ tt[s].status = OS_TASK_STATUS_WAITING
        THEN LET w == U32Dec(tt[s].wait_ticks)
             IN  [tt[s] EXCEPT !.wait_ticks = w,
                               !.status = IF w = 0 THEN OS_TASK_STATUS_IDLE ELSE @]
        ELSE tt[s]]

\* the exploration stops MaxTicks ticks after a counter has wrapped below zero
TickBound ==
    \A s \in Slots : tasks[s].status = OS_TASK_STATUS_WAITING
                        => tasks[s].wait_ticks # 0 - MaxTicks

Woken(tt, aged, sz) ==
    \E s \in 1 .. (sz - 1) : tt[s].status = OS_TASK_STATUS_WAITING
                                /\ aged[s].status = OS_TASK_STATUS_IDLE

\* line 181: the timer runs from SysTick_Config on
TimerRuns == main_pc \in {"timer", "state", "task"}

\* The tick period is longer than one handler run, so a tick is served either
\* from thread mode or tail-chained after the SVC handler, never after a tick
\* whose PendSV request is still pending.
SysTick_Handler ==
    /\ TimerRuns
    /\ ~pendsv \/ svc_tail
    /\ TickBound
    /\ svc_tail' = FALSE
    /\ LET aged == Age(tasks, size)
       IN  /\ Invoke(aged, os_reschedule(aged, current_task, size), "tick")
           /\ hist' = IF Woken(tasks, aged, size)
                      THEN << current_task' >>
                      ELSE KeepLast(Append(hist, current_task'))
    /\ dly' = [s \in Slots |->
                  IF dly[s].on /\ tasks'[s].status = OS_TASK_STATUS_WAITING
                  THEN [dly[s] EXCEPT !.rem = @ - 1]
                  ELSE NoDly]
    /\ last' = NoCall
    /\ UNCHANGED <<m_state, size, nvic_prio, running, ctx, pc, p_task, lr, main_pc,
                   mem, err_reports>>

(* ---- PendSV_Handler: the external context-switch routine ---- *)

\* saves the live registers behind os_curr_task->sp, resumes os_next_task->sp.
\* Served before line 189 has set PSP, the routine saves through a process
\* stack pointer that was never set: what the system does from then on is
\* not defined, and the exploration stops ("fault").
PendSV_Handler ==
    /\ pendsv
    /\ pendsv' = FALSE
    /\ svc_tail' = FALSE
    /\ IF main_pc \in {"timer", "state"}
       THEN /\ main_pc' = "fault"
            /\ UNCHANGED <<running, ctx>>
       ELSE /\ LET saved == [ctx EXCEPT ![os_curr_task] = running]
               IN  /\ running' = saved[os_next_task]
                   /\ ctx' = [saved EXCEPT ![os_next_task] = NULL]
            /\ UNCHANGED main_pc
    /\ inv' = NoInv
    /\ last' = NoCall
    /\ UNCHANGED <<kvars, nvic_prio, pc, p_task, lr, mem, err_reports,
                   hist, dly, starve>>

Next ==
    \/ os_init
    \/ os_task_init
    \/ os_start
    \/ os_start_set_state
    \/ os_start_call_handler
    \/ os_start_return
    \/ task_finished
    \/ os_delay
    \/ os_delay_store
    \/ os_svcall_handler
    \/ os_delay_return
    \/ SysTick_Handler
    \/ PendSV_Handler

Spec == Init /\ [][Next]_vars

(* ---- the context builder on its own, over every application ---- *)

InitBuild == Boot /\ app \in Apps

NextBuild ==
    \/ os_init
    \/ os_task_init

SpecBuild == InitBuild /\ [][NextBuild]_vars

(* ======================= properties ======================= *)

StatusOf(s) == tasks[s].status

\* the occupied slots whose status is Active
ActiveSlots == {s \in 0 .. (size - 1) : StatusOf(s) = OS_TASK_STATUS_ACTIVE}

\* the user slots that were ready when the recorded invocation began: Idle,
\* or the current task preempted while Active
ReadyAtEntry ==
    {s \in 1 .. (inv.sz - 1) :
        \/ inv.st[s] = OS_TASK_STATUS_IDLE
        \/ s = inv.cur /\ inv.st[s] = OS_TASK_STATUS_ACTIVE}

\* the user slots that are ready now
ReadyNow ==
    {s \in 1 .. (size - 1) :
        StatusOf(s) \in {OS_TASK_STATUS_IDLE, OS_TASK_STATUS_ACTIVE}}

\* number of slots visited going from slot c up to slot s in ascending order,
\* wrapping from slot sz-1 to slot 1
Dist(c, s, sz) == IF s > c THEN s - c ELSE s - c + (sz - 1)

\* the first member of R met in that order after slot c
FirstAfter(c, R, sz) ==
    CHOOSE s \in R : \A t \in R : Dist(c, s, sz) <= Dist(c, t, sz)

\* C1: once start() has succeeded with a user task registered, exactly one
\* occupied slot (slot 0 included) has status Active.
C1_ExactlyOneActive ==
    (m_state = OS_STATE_STARTED /\ size >= 2) => Cardinality(ActiveSlots) = 1

\* C2: with k >= 1 ready user tasks and no delay() call, each scheduler
\* invocation selects the first ready slot after the previously running one in
\* ascending order with wrap from size-1 to 1 (never slot 0); any k
\* consecutive invocations select k different tasks, all the ready ones; with
\* two or more ready tasks every invocation requests a switch.
C2_RoundRobin ==
    /\ (inv.valid /\ ReadyAtEntry # {}) =>
          /\ inv.next = FirstAfter(inv.cur, ReadyAtEntry, inv.sz)
          /\ current_task = inv.next
          /\ (Cardinality(ReadyAtEntry) >= 2 => inv.raised /\ pendsv)
    /\ LET k == Cardinality(ReadyNow)
           n == Len(hist)
       IN  k >= 1 =>
             /\ \A j \in 1 .. n : hist[j] \in ReadyNow
             /\ \A i, j \in 1 .. n : (i < j /\ j - i < k) => hist[i] # hist[j]
             /\ \A j \in 1 .. (n - 1) :
                   hist[j + 1] = FirstAfter(hist[j], ReadyNow, size)
             /\ n >= k => {hist[j] : j \in (n - k + 1) .. n} = ReadyNow

\* two ready user tasks have been selected in turn, the scan wrapping from the
\* last slot to slot 1
C2_Witness ==
    /\ inv.valid /\ inv.raised
    /\ size >= 3 /\ Cardinality(ReadyNow) >= 2
    /\ Len(hist) >= 2
    /\ hist[Len(hist) - 1] = size - 1
    /\ hist[Len(hist)] = 1

\* C3: a scheduler invocation selects the idle slot (current_task = 0, next =
\* slot 0) if and only if no user slot was ready at entry; in particular
\* whenever all user tasks are Waiting.
C3_IdleIffNoReady ==
    inv.valid =>
       /\ (current_task = 0 /\ os_next_task = 0) <=> (ReadyAtEntry = {})
       /\ (\A s \in 1 .. (inv.sz - 1) : inv.st[s] = OS_TASK_STATUS_WAITING)
             => (current_task = 0 /\ os_next_task = 0)

\* an invocation entered with every user task Waiting has selected slot 0
C3_Witness ==
    /\ inv.valid /\ inv.sz >= 3
    /\ \A s \in 1 .. (inv.sz - 1) : inv.st[s] = OS_TASK_STATUS_WAITING
    /\ current_task = 0 /\ os_next_task = 0

\* C4: a scheduler invocation sets PendSV pending if and only if the slot it
\* selects differs from the slot that was current at entry.
C4_PendSVIffSwitch ==
    inv.valid =>
       /\ inv.raised <=> (os_next_task # inv.cur)
       /\ os_curr_task = inv.cur
       /\ pendsv <=> (inv.pend \/ os_next_task # inv.cur)

\* an invocation has selected the user task that was current at entry and has
\* left PendSV clear
C4_Witness ==
    /\ inv.valid /\ inv.cur # 0
    /\ os_next_task = inv.cur
    /\ ~inv.raised /\ ~pendsv

\* C5: a slot marked Waiting by delay(N) holds wait_ticks = N less the ticks
\* since and stays Waiting through the first N-1 ticks; it leaves Waiting
\* during the N-th tick.
C5_DelayWakesAtNthTick ==
    \A s \in Slots :
       dly[s].on =>
          /\ dly[s].rem > 0 =>
                /\ StatusOf(s) = OS_TASK_STATUS_WAITING
                /\ tasks[s].wait_ticks = dly[s].rem
          /\ (dly[s].rem < 0 \/ (dly[s].rem = 0 /\ ~dly[s].zero)) =>
                StatusOf(s) # OS_TASK_STATUS_WAITING

\* C6: every Waiting slot has wait_ticks > 0 and no counter has wrapped.
C6_WaitingHasTicks ==
    \A s \in Slots :
       StatusOf(s) = OS_TASK_STATUS_WAITING =>
          tasks[s].wait_ticks # 0 /\ ~U32Wrapped(tasks[s].wait_ticks)

\* C7: current_task < size from the completion of a successful init() onward.
C7_CurrentBelowSize ==
    m_state # OS_STATE_DEFAULT => current_task < size

\* C8: a lifecycle operation called outside its required state returns
\* WrongState and changes neither the kernel state, nor the task table, nor
\* the current/next references.
C8_Rejected == last'.ret = "WRONG_STATE" /\ UNCHANGED kvars

C8_WrongStateNoEffect ==
    [][ /\ (os_init /\ m_state # OS_STATE_DEFAULT) => C8_Rejected
        /\ (os_task_init /\ m_state # OS_STATE_INITIALIZED
                         /\ m_state # OS_STATE_TASKS_INITIALIZED) => C8_Rejected
        /\ (os_start /\ m_state # OS_STATE_TASKS_INITIALIZED) => C8_Rejected
        /\ (os_delay /\ m_state # OS_STATE_STARTED) => C8_Rejected ]_vars

\* create_task has been called once Started and has returned WrongState
C8_Witness ==
    /\ m_state = OS_STATE_STARTED
    /\ last = [op |-> "os_task_init", ret |-> "WRONG_STATE"]

\* C9: create_task returns OutOfMemory only once OS_CONFIG_MAX_TASKS user
\* tasks are registered beside the idle task.
C9_CapacityIsMaxTasks ==
    (last.op = "os_task_init" /\ last.ret = "NO_MEM") =>
        size - 1 = OS_CONFIG_MAX_TASKS

\* C10: a successful init() leaves the state Initialized, and start() never
\* runs with only the idle task registered.
C10_InitLeavesInitialized ==
    /\ (last.op = "os_init" /\ last.ret = "OK") => m_state = OS_STATE_INITIALIZED
    /\ m_state = OS_STATE_STARTED => size >= 2

(* ---- handler return ---- *)

\* the contexts whose handler has returned
Returned == {c \in UserCtx : pc[c] \in {"trap", "main"}}

\* C11: once a task's handler has returned and the trap has reported
\* TaskFinished, the task's slot never again has status Idle and is never
\* again selected as next by the scheduler.
C11_FinishedNeverReady ==
    \A c \in UserCtx :
       (pc[c] = "trap" /\ err_reports[c] >= 1) =>
          /\ StatusOf(c) # OS_TASK_STATUS_IDLE
          /\ ~(inv.valid /\ inv.next = c)

\* C12: for every registered user task, the one start() runs first included,
\* a return from the handler ends in the trap function with exactly one
\* TaskFinished report; start() never returns to its caller once Started.
C12_ReturnIsTrapped ==
    /\ \A c \in Returned : pc[c] = "trap" /\ err_reports[c] = 1
    /\ ~(m_state = OS_STATE_STARTED /\ last = [op |-> "os_start", ret |-> "OK"])

(* ---- the initial stack frame ---- *)

\* the last successful call of the application was create_task
Created == last = [op |-> "os_task_init", ret |-> "OK"]

\* the words of the frame that hold xPSR, PC, LR and R0
NamedWords(S) == {S - 1, S - 2, S - 3, S - 8}

\* C13: after a successful create_task(handler, params, base, S), S >= 16, the
\* stored stack pointer is the address of word S-16 of the region, word S-1
\* is 0x01000000, word S-2 the handler address, word S-3 the trap-function
\* address, word S-8 the parameter, and no word below index S-16 is written.
C13_FrameLayout ==
    Created =>
       LET S == stack.size
           t == tasks[size - 1]
       IN  /\ S >= 16
           /\ t.sp = WordAddr(stack.base, S - 16)
           /\ stack.words[S - 1] = 16777216
           /\ stack.words[S - 2] = AddrOf(t.handler)
           /\ stack.words[S - 3] = AddrOf("task_finished")
           /\ stack.words[S - 8] = app.p_params
           /\ t.p_params = app.p_params
           /\ \A i \in 0 .. (S - 17) : stack.words[i] = stack.old[i]

\* a task was created on a stack longer than the frame, filled with non-zero
\* words, with a non-zero parameter
C13_Witness ==
    /\ Created
    /\ size >= 3
    /\ stack.size > 16
    /\ stack.old[0] # 0
    /\ app.p_params # 0
    /\ stack.words[stack.size - 8] = app.p_params

\* C14: in the production configuration, after a successful create_task the
\* twelve other words of the frame (S-4..S-7 and S-9..S-16) are all zero,
\* whatever the region held before the call.
C14_OtherWordsZero ==
    (Created /\ ~app.debug) =>
       \A i \in ((stack.size - 16) .. (stack.size - 1)) \ NamedWords(stack.size) :
          stack.words[i] = 0

(* ---- start() ---- *)

\* C15: when start(), called with a user task registered, returns
\* InvalidParameter, the call has changed nothing:
\* not the kernel state, the task table, the current/next references, nor the
\* priorities of the context-switch, syscall and tick interrupts.
C15_RejectedPeriodNoEffect ==
    [][ (os_start /\ size >= 2 /\ last'.ret = "INVALID_PARAM")
           => UNCHANGED <<kvars, nvic_prio>> ]_vars

(* ---- the scan ---- *)

\* the status the scan found in slot s during the recorded invocation
ScannedStatus(s) ==
    IF s = inv.cur /\ inv.cur # 0 /\ inv.st[s] = OS_TASK_STATUS_ACTIVE
    THEN OS_TASK_STATUS_IDLE
    ELSE inv.st[s]

\* C16: every scheduler invocation terminates: with a ready task, the scan
\* stops after at most size-1 increments of current_task, on a user slot
\* whose status is Idle, and current_task only takes values in 1..size-1.
C16_ScanTerminates ==
    inv.valid =>
       LET n == Len(inv.path)
       IN  IF ReadyAtEntry = {}
           THEN n = 0
           ELSE /\ n >= 1 /\ n <= inv.sz - 1
                /\ \A j \in 1 .. n : inv.path[j] \in 1 .. (inv.sz - 1)
                /\ \A j \in 1 .. (n - 1) :
                       ScannedStatus(inv.path[j]) # OS_TASK_STATUS_IDLE
                /\ ScannedStatus(inv.path[n]) = OS_TASK_STATUS_IDLE
                /\ inv.path[n] = inv.next
                /\ current_task = inv.path[n]

\* a scan has taken size-1 increments, wrapping from the last slot to slot 1
C16_Witness ==
    /\ inv.valid /\ inv.sz >= 3
    /\ Len(inv.path) = inv.sz - 1
    /\ \E j \in 1 .. (Len(inv.path) - 1) :
          inv.path[j] = inv.sz - 1 /\ inv.path[j + 1] = 1

(* ---- delay() and the tick ---- *)

\* C17: delay() writes status = Waiting and wait_ticks as one step with
\* respect to the tick service: no tick is served between the two writes.
C17_MarkIsAtomic ==
    ~ \E c \in UserCtx :
         /\ pc[c] = "mark"
         /\ inv.valid /\ inv.by = "tick"
         /\ inv.st[p_task[c]] = OS_TASK_STATUS_WAITING

\* C18: whenever the context-switch routine runs, the current reference
\* designates the task whose registers are live and the next reference a
\* different task, also after a tick served between the syscall gateway and
\* the context-switch interrupt it requested.
C18_ReferencesValidAtSwitch ==
    (pendsv /\ m_state = OS_STATE_STARTED /\ main_pc = "task" /\ size >= 2) =>
       /\ os_curr_task = running
       /\ os_next_task # os_curr_task

\* C19: a user task Idle at the end of a scheduler invocation is selected
\* within at most size-1 further invocations, whatever delay() calls the
\* other tasks make; and a slot put to wait by delay(N), N >= 1, is no longer
\* Waiting once N ticks have been served, so that it becomes Active again
\* within size-1 further ticks.
C19_NoStarvation ==
    /\ \A s \in 1 .. (size - 1) : starve[s] <= size - 1
    /\ \A s \in UserCtx :
          (dly[s].on /\ ~dly[s].zero) =>
             /\ dly[s].rem >= 1
             /\ StatusOf(s) = OS_TASK_STATUS_WAITING
             /\ tasks[s].wait_ticks = dly[s].rem

\* a slot has been left Idle by a scheduler invocation and another task has
\* since called delay(N) with N >= 1
C19_Witness ==
    \E s, t \in 1 .. (size - 1) :
       /\ starve[s] = 1
       /\ StatusOf(s) = OS_TASK_STATUS_IDLE
       /\ StatusOf(t) = OS_TASK_STATUS_WAITING
       /\ dly[t].on /\ dly[t].rem >= 1

\* C20: with a user task registered, no scheduler invocation happens before
\* start() has set the current reference and the state Started and has
\* switched to the first task's stack: the tick service never runs the
\* scheduler in TasksInitialized.
C20_NoInvocationBeforeStarted ==
    (inv.valid /\ size >= 2) => (m_state = OS_STATE_STARTED /\ main_pc = "task")

====
